---- MODULE Spec2Model ----
(***************************************************************************)
(* Verification model of paspailleur: the PatternStructure engine          *)
(* (fit / extent / intent / init_atomic_patterns), the Close-By-One        *)
(* enumeration generators (iter_intents_via_ocbo, iter_all_patterns), the  *)
(* Lindig lattice construction (list_intents_via_Lindig_complex) and the   *)
(* operators of the Pattern class.                                         *)
(*                                                                         *)
(* Conventions.  A bitarray is the set of its set positions; positions and *)
(* list indices are 1-based here (Python position g is g+1), so the        *)
(* sentinel object_to_add = -1 of the source is 0.  An Optional field is a *)
(* sequence of length <= 1: <<>> is Python's None, <<v>> holds v.  A dict  *)
(* is the sequence of its items in insertion order.                        *)
(***************************************************************************)
EXTENDS Integers, Sequences, FiniteSets, TLC

VARIABLES
    object_names,             \* PatternStructure._object_names
    object_irreducibles,      \* PatternStructure._object_irreducibles
    atomic_patterns,          \* PatternStructure._atomic_patterns
    atomic_patterns_order,    \* PatternStructure._atomic_patterns_order
    result,                   \* outcome of the last call on the PatternStructure / Pattern
    patterns,                 \* argument of iter_intents_via_ocbo
    atomic_patterns_extents,  \* argument of iter_all_patterns
    min_support,              \* argument of iter_all_patterns
    depth_first,              \* argument of iter_all_patterns
    controlled_iteration,     \* argument of iter_all_patterns
    stop_pattern,             \* the caller's stop pattern in controlled iteration
    stack,                    \* the generator's work stack / queue
    yielded,                  \* the values the generator has yielded so far
    pc,                       \* position of the generator
    Lattice_data_extents,     \* list_intents_via_Lindig_complex: the extents found so far
    concept_extent            \* list_intents_via_Lindig_complex: the current concept

vars == <<object_names, object_irreducibles, atomic_patterns, atomic_patterns_order,
          result, patterns, atomic_patterns_extents, min_support, depth_first,
          controlled_iteration, stop_pattern, stack, yielded, pc,
          Lattice_data_extents, concept_extent>>

lindigVars == <<Lattice_data_extents, concept_extent>>
psVars == <<object_names, object_irreducibles, atomic_patterns, atomic_patterns_order, result>>
genVars == <<patterns, atomic_patterns_extents, min_support, depth_first,
             controlled_iteration, stop_pattern, stack, yielded, pc>>

(***************************************************************************)
(* Bounds of the model.                                                    *)
(***************************************************************************)
MaxObj == 3        \* objects fitted before the extent / intent queries
MaxAtomObj == 2    \* objects fitted before the atomic-pattern queries
RefitMaxObj == 1   \* objects per fit when fits are repeated
MaxOcboObj == 3    \* objects given to iter_intents_via_ocbo
MaxAtoms == 3      \* atomic patterns given to iter_all_patterns
MaxCboObj == 2     \* objects behind the extents given to iter_all_patterns
MaxCtlObj == 1     \* the same for the controlled iteration
MaxFracObj == 2    \* the same for a fractional min_support
MaxDen == 3        \* denominators of the fractional min_support
MaxFairObj == 1    \* objects given to the generators where pushes and termination are checked
MaxFairAtoms == 2  \* atomic patterns given to iter_all_patterns there

(***************************************************************************)
(* Small helpers.                                                          *)
(***************************************************************************)
NoneVal == <<>>
Some(v) == <<v>>
IsNone(x) == Len(x) = 0
Get(x) == x[1]

Min(S) == CHOOSE x \in S : \A y \in S : x <= y
Range(s) == {s[i] : i \in DOMAIN s}
Reverse(s) == [i \in 1..Len(s) |-> s[Len(s) + 1 - i]]
InjectiveSeqs(S, n) == {s \in [1..n -> S] : \A i, j \in 1..n : s[i] = s[j] => i = j}
IndexOf(s, x) == Min({i \in DOMAIN s : s[i] = x})

\* a Python number (an int, or a float given exactly) as the fraction num / den
IntValue(k) == [num |-> k, den |-> 1]
Fractions(max_den) ==
    {f \in [num : 1..max_den, den : 2..max_den] : f.num < f.den}

(***************************************************************************)
(* The pattern domain.  A pattern value is a set of items (the base        *)
(* Pattern class over frozensets); items carry a part-of order (a word in  *)
(* an n-gram, a looser bound of an interval) and values are closed under   *)
(* it, so that atomic patterns can be comparable.                          *)
(***************************************************************************)
Items == {1, 2, 3, 4}
SubItem(u, v) == v % u = 0
Down(v) == {u \in Items : SubItem(u, v)}
Patterns == {p \in SUBSET Items : \A v \in p : Down(v) \subseteq p}

\* Pattern.__and__ / __or__ with min_pattern = max_pattern = None
Meet(a, b) == a \cap b
Join(a, b) == a \cup b
Le(a, b) == IF a = b THEN TRUE ELSE Meet(a, b) = a
Lt(a, b) == (a # b) /\ (Meet(a, b) = a)

\* the atomic decomposition a domain class supplies
AtomicPatternsOf(p) == {Down(v) : v \in p}

RECURSIVE ReduceMeet(_, _)
ReduceMeet(s, acc) == IF s = <<>> THEN acc ELSE ReduceMeet(Tail(s), Meet(acc, Head(s)))
RECURSIVE ReduceJoin(_, _)
ReduceJoin(s, acc) == IF s = <<>> THEN acc ELSE ReduceJoin(Tail(s), Join(acc, Head(s)))

(***************************************************************************)
(* PatternStructure.extent and PatternStructure.intent                     *)
(***************************************************************************)
Unfit == \/ IsNone(object_irreducibles) \/ Len(Get(object_irreducibles)) = 0
         \/ IsNone(object_names) \/ Len(Get(object_names)) = 0

Ok(v) == [kind |-> "ok", value |-> v]
Raise(e) == [kind |-> e]
UnfitError == "ValueError: The data is unknown"

\* faulty variant: the comparison of extent() turned around (ptrn <= pattern)
ExtentBA_Reversed(irr, pattern) ==
    UNION {irr[i].ext : i \in {j \in DOMAIN irr : Le(irr[j].ptrn, pattern)}}

\* faulty variant: the extent of the first matching irreducible, not the union
ExtentBA_FirstOnly(irr, pattern) ==
    LET idx == {j \in DOMAIN irr : Le(pattern, irr[j].ptrn)}
    IN  IF idx = {} THEN {} ELSE irr[Min(idx)].ext

\* the bitarray computed by extent() from the irreducibles
ExtentBA(irr, pattern) ==
    UNION {irr[i].ext : i \in {j \in DOMAIN irr : Le(pattern, irr[j].ptrn)}}

NamesOf(names, extent) == {names[g] : g \in extent}

extent(pattern, return_bitarray) ==
    IF Unfit THEN Raise(UnfitError)
    ELSE LET ext == ExtentBA(Get(object_irreducibles), pattern)
         IN  IF return_bitarray THEN Ok(ext)
             ELSE Ok(NamesOf(Get(object_names), ext))

\* objects is [ba |-> TRUE, v |-> set of positions] or [ba |-> FALSE, v |-> set of ids]
ObjectsBA(names, objects) ==
    IF objects.ba THEN objects.v
    ELSE {IndexOf(names, o) : o \in objects.v}

\* faulty variant: patterns whose extent meets the objects (no subset test)
IntentOfBA_Overlap(irr, objects_ba) ==
    LET super_idx == {i \in DOMAIN irr : irr[i].ext \cap objects_ba # {}}
        all_patterns == [i \in DOMAIN irr |-> irr[i].ptrn]
    IN  IF super_idx # {}
        THEN {v \in Items : \A i \in super_idx : v \in irr[i].ptrn}
        ELSE ReduceJoin(Tail(all_patterns), Head(all_patterns))

IntentOfBA(irr, objects_ba) ==
    LET super_idx == {i \in DOMAIN irr : irr[i].ext \subseteq objects_ba}
        super_patterns == [k \in 1..Cardinality(super_idx) |->
                              irr[CHOOSE i \in super_idx :
                                    Cardinality({j \in super_idx : j < i}) = k - 1].ptrn]
        all_patterns == [i \in DOMAIN irr |-> irr[i].ptrn]
    IN  IF super_patterns # <<>>
        THEN ReduceMeet(Tail(super_patterns), Head(super_patterns))
        ELSE ReduceJoin(Tail(all_patterns), Head(all_patterns))

intent(objects) ==
    IF Unfit THEN Raise(UnfitError)
    ELSE IF ~objects.ba /\ ~(objects.v \subseteq Range(Get(object_names)))
    THEN Raise("ValueError: not in list")
    ELSE Ok(IntentOfBA(Get(object_irreducibles),
                       ObjectsBA(Get(object_names), objects)))

\* faulty variant: the pattern is put at the end of its group
InsertEquiv_Append(equiv_patterns, atomic_pattern) == Append(equiv_patterns, atomic_pattern)

(***************************************************************************)
(* PatternStructure.init_atomic_patterns                                   *)
(***************************************************************************)
\* Step 1: deque.insert before the first known pattern the new one is <=
InsertEquiv(equiv_patterns, atomic_pattern) ==
    LET greater_patterns == {i \in 1..Len(equiv_patterns) :
                                Le(atomic_pattern, equiv_patterns[i])}
        first_greater_pattern == IF greater_patterns = {} THEN Len(equiv_patterns) + 1
                                 ELSE Min(greater_patterns)
    IN  SubSeq(equiv_patterns, 1, first_greater_pattern - 1) \o <<atomic_pattern>>
          \o SubSeq(equiv_patterns, first_greater_pattern, Len(equiv_patterns))

\* faulty variant: a pattern whose extent is already known is left out
RECURSIVE GroupByExtent_DropEquiv(_, _, _)
GroupByExtent_DropEquiv(irr, iter_order, patterns_per_extent) ==
    IF iter_order = <<>> THEN patterns_per_extent
    ELSE LET atomic_pattern == Head(iter_order)
             ext == ExtentBA(irr, atomic_pattern)
         IN  GroupByExtent_DropEquiv(irr, Tail(iter_order),
                IF ext \in DOMAIN patterns_per_extent
                THEN patterns_per_extent
                ELSE patterns_per_extent @@ (ext :> <<atomic_pattern>>))

\* Step 1: patterns_per_extent, for the atomic patterns met in iteration order
RECURSIVE GroupByExtent(_, _, _)
GroupByExtent(irr, iter_order, patterns_per_extent) ==
    IF iter_order = <<>> THEN patterns_per_extent
    ELSE LET atomic_pattern == Head(iter_order)
             ext == ExtentBA(irr, atomic_pattern)
         IN  GroupByExtent(irr, Tail(iter_order),
                IF ext \in DOMAIN patterns_per_extent
                THEN [patterns_per_extent EXCEPT ![ext] = InsertEquiv(@, atomic_pattern)]
                ELSE patterns_per_extent @@ (ext :> <<atomic_pattern>>))

\* the key (-ext.count(), tuple(ext.search(True))) compared as Python compares tuples
ExtentKeyLess(a, b) ==
    \/ Cardinality(a) > Cardinality(b)
    \/ /\ Cardinality(a) = Cardinality(b)
       /\ a # b
       /\ Min((a \ b) \cup (b \ a)) \in a

RECURSIVE SortExtents(_)
SortExtents(extents) ==
    IF extents = {} THEN <<>>
    ELSE LET first == CHOOSE e \in extents : \A o \in extents \ {e} : ExtentKeyLess(e, o)
         IN  <<first>> \o SortExtents(extents \ {first})

\* sort_extents_subsumption: for every extent the positions of its strict subsets
SortExtentsSubsumption(sorted_extents, known_extents, n_objects) ==
    LET full_extent == 1..n_objects
        empty_extent == {}
        with_full == IF sorted_extents[1] # full_extent
                     THEN <<full_extent>> \o sorted_extents ELSE sorted_extents
        extents == IF with_full[Len(with_full)] # empty_extent
                   THEN Append(with_full, empty_extent) ELSE with_full
        m == Len(extents)
        reversed == Reverse(extents)
        \* sort_intents_inclusion(...)[1]: positions of the strict supersets
        transitive == [i \in 1..m |-> {j \in 1..m : reversed[i] # reversed[j]
                                          /\ reversed[i] \subseteq reversed[j]}]
        \* inverse_order
        inversed == [j \in 1..m |-> {i \in 1..m : j \in transitive[i]}]
        \* [ba[::-1] for ba in inversed[::-1]]
        order0 == [k \in 1..m |-> {m + 1 - i : i \in inversed[m + 1 - k]}]
        order1 == IF full_extent \notin known_extents
                  THEN [k \in 1..(m - 1) |-> {i - 1 : i \in order0[k + 1] \ {1}}]
                  ELSE order0
        m1 == Len(order1)
        order2 == IF empty_extent \notin known_extents
                  THEN [k \in 1..(m1 - 1) |-> order1[k] \ {m1}]
                  ELSE order1
    IN  order2

\* [(ptrn, ext) for ext in sorted_extents for ptrn in patterns_per_extent[ext]]
RECURSIVE FlattenGroups(_, _)
FlattenGroups(sorted_extents, patterns_per_extent) ==
    IF sorted_extents = <<>> THEN <<>>
    ELSE LET ext == Head(sorted_extents)
             group == patterns_per_extent[ext]
         IN  [i \in 1..Len(group) |-> [ptrn |-> group[i], ext |-> ext]]
               \o FlattenGroups(Tail(sorted_extents), patterns_per_extent)

PatternIdx(atoms, pattern) == Min({i \in DOMAIN atoms : atoms[i].ptrn = pattern})

\* the candidates of Step 2: later patterns of the same extent, and the patterns
\* of every strictly smaller extent
PatternsToTest(idx, atoms, patterns_per_extent, sorted_extents, extents_order) ==
    LET pattern == atoms[idx].ptrn
        ext == atoms[idx].ext
        extent_idx == IndexOf(sorted_extents, ext)
        n_greater_patterns_same_extent ==
            Len(patterns_per_extent[ext]) - IndexOf(patterns_per_extent[ext], pattern)
        same_extent == (idx + 1)..(idx + n_greater_patterns_same_extent)
        other_extents ==
            UNION {LET other_extent == sorted_extents[smaller_extent_idx]
                       first_other_pattern_idx ==
                           PatternIdx(atoms, patterns_per_extent[other_extent][1])
                       n_patterns_other_extent == Len(patterns_per_extent[other_extent])
                   IN  first_other_pattern_idx..
                         (first_other_pattern_idx + n_patterns_other_extent - 1)
                   : smaller_extent_idx \in extents_order[extent_idx]}
    IN  same_extent \cup other_extents

\* faulty variant: the implied candidates are skipped but not recorded as greater
RECURSIVE FindSuperPatterns_NoAbsorb(_, _, _, _, _)
FindSuperPatterns_NoAbsorb(pattern, atoms, patterns_order, patterns_to_test, super_patterns) ==
    IF patterns_to_test = {} THEN super_patterns
    ELSE LET other_idx == Min(patterns_to_test)
             rest == patterns_to_test \ {other_idx}
         IN  IF Lt(pattern, atoms[other_idx].ptrn)
             THEN FindSuperPatterns_NoAbsorb(pattern, atoms, patterns_order,
                     rest \ patterns_order[other_idx], super_patterns \cup {other_idx})
             ELSE FindSuperPatterns_NoAbsorb(pattern, atoms, patterns_order, rest,
                                             super_patterns)

\* the while loop of Step 2: test the lowest candidate, absorb what it implies
RECURSIVE FindSuperPatterns(_, _, _, _, _)
FindSuperPatterns(pattern, atoms, patterns_order, patterns_to_test, super_patterns) ==
    IF patterns_to_test = {} THEN super_patterns
    ELSE LET other_idx == Min(patterns_to_test)
             rest == patterns_to_test \ {other_idx}
         IN  IF Lt(pattern, atoms[other_idx].ptrn)
             THEN FindSuperPatterns(pattern, atoms, patterns_order,
                     rest \ patterns_order[other_idx],
                     super_patterns \cup {other_idx} \cup patterns_order[other_idx])
             ELSE FindSuperPatterns(pattern, atoms, patterns_order, rest, super_patterns)

\* for pattern in reversed(atomic_patterns): patterns_order[idx] = super_patterns
RECURSIVE BuildPatternsOrder(_, _, _, _, _, _)
BuildPatternsOrder(idx, atoms, patterns_per_extent, sorted_extents, extents_order, patterns_order) ==
    IF idx = 0 THEN patterns_order
    ELSE LET to_test == PatternsToTest(idx, atoms, patterns_per_extent,
                                       sorted_extents, extents_order)
             super_patterns == FindSuperPatterns(atoms[idx].ptrn, atoms, patterns_order,
                                                 to_test, {})
         IN  BuildPatternsOrder(idx - 1, atoms, patterns_per_extent, sorted_extents,
                                extents_order, (idx :> super_patterns) @@ patterns_order)

\* the set reduce(set.__or__, (p.atomic_patterns for p in irreducibles), set())
AllAtomicPatterns(irr) == UNION {AtomicPatternsOf(irr[i].ptrn) : i \in DOMAIN irr}

\* init_atomic_patterns for one iteration order of the set of atomic patterns
InitAtomicPatterns(irr, n_objects, iter_order) ==
    LET patterns_per_extent == GroupByExtent(irr, iter_order, <<>>)
        sorted_extents == SortExtents(DOMAIN patterns_per_extent)
        extents_order == SortExtentsSubsumption(sorted_extents,
                                                DOMAIN patterns_per_extent, n_objects)
        atoms == FlattenGroups(sorted_extents, patterns_per_extent)
        patterns_order == BuildPatternsOrder(Len(atoms), atoms, patterns_per_extent,
                                             sorted_extents, extents_order, <<>>)
    IN  [atomic_patterns |-> atoms,
         atomic_patterns_order |-> [i \in 1..Len(atoms) |-> patterns_order[i]]]

(***************************************************************************)
(* PatternStructure.fit                                                    *)
(***************************************************************************)
IdList == <<"a", "b", "c", "d">>
Ids(n) == {IdList[i] : i \in 1..n}

\* faulty variant: the bit vector of a known description is started anew
RECURSIVE BuildIrreducibles_Overwrite(_, _, _)
BuildIrreducibles_Overwrite(descr, g, irr) ==
    IF g > Len(descr) THEN irr
    ELSE LET known == {i \in DOMAIN irr : irr[i].ptrn = descr[g]}
         IN  BuildIrreducibles_Overwrite(descr, g + 1,
                IF known = {} THEN Append(irr, [ptrn |-> descr[g], ext |-> {g}])
                ELSE [irr EXCEPT ![Min(known)].ext = {g}])

\* the loop of fit over enumerate(object_descriptions.items())
RECURSIVE BuildIrreducibles(_, _, _)
BuildIrreducibles(descr, g, irr) ==
    IF g > Len(descr) THEN irr
    ELSE LET known == {i \in DOMAIN irr : irr[i].ptrn = descr[g]}
         IN  BuildIrreducibles(descr, g + 1,
                IF known = {} THEN Append(irr, [ptrn |-> descr[g], ext |-> {g}])
                ELSE [irr EXCEPT ![Min(known)].ext = @ \cup {g}])

\* fit(object_descriptions, compute_atomic_patterns) on a domain that supports
\* atomic decomposition (atomisable) or whose atomic_patterns raises
Fit(names, descr, compute_atomic_patterns, atomisable) ==
    LET irr == BuildIrreducibles(descr, 1, <<>>)
        n_objects == Len(descr)
        compute == IF compute_atomic_patterns = "None" THEN atomisable
                   ELSE compute_atomic_patterns = "True"
        atoms == AllAtomicPatterns(irr)
        fit_arg == [names |-> names, descr |-> descr,
                    compute_atomic_patterns |-> compute_atomic_patterns,
                    atomisable |-> atomisable]
        fail(e) == /\ result' = [op |-> "fit", arg |-> fit_arg, out |-> Raise(e), computed |-> FALSE]
                   /\ UNCHANGED <<atomic_patterns, atomic_patterns_order>>
    IN  /\ object_names' = Some(names)
        /\ object_irreducibles' = Some(irr)
        /\ IF compute_atomic_patterns = "None" /\ n_objects = 0
           THEN fail("IndexError")             \* list(object_irreducibles)[0]
           ELSE IF ~compute
           THEN /\ result' = [op |-> "fit", arg |-> fit_arg, out |-> Ok(NoneVal), computed |-> FALSE]
                /\ UNCHANGED <<atomic_patterns, atomic_patterns_order>>
           ELSE IF n_objects > 0 /\ ~atomisable
           THEN fail("NotImplementedError")    \* p.atomic_patterns
           ELSE IF atoms = {}
           THEN fail("IndexError")             \* extents[0] of an empty list
           ELSE \E iter_order \in InjectiveSeqs(atoms, Cardinality(atoms)) :
                  LET r == InitAtomicPatterns(irr, n_objects, iter_order)
                  IN  /\ atomic_patterns' = Some(r.atomic_patterns)
                      /\ atomic_patterns_order' = Some(r.atomic_patterns_order)
                      /\ result' = [op |-> "fit", arg |-> fit_arg, out |-> Ok(NoneVal), computed |-> TRUE]

FitCall(max_objects, compute_flags, domains) ==
    /\ \E n \in 0..max_objects :
         \E descr \in [1..n -> Patterns] :
           \E compute_atomic_patterns \in compute_flags, atomisable \in domains :
              Fit([i \in 1..n |-> IdList[i]], descr, compute_atomic_patterns, atomisable)
    /\ UNCHANGED genVars
    /\ UNCHANGED lindigVars

Fresh == result.op = "init" /\ IsNone(object_names)

\* fit on the freshly constructed structure
FirstFit == Fresh /\ FitCall(MaxAtomObj, {"None", "True", "False"}, BOOLEAN)

\* fit(..., compute_atomic_patterns=False) of descriptions of the base Pattern class
\* on the freshly constructed structure
FirstFitPlain == Fresh /\ FitCall(MaxObj, {"False"}, {FALSE})

\* fit on a structure in any state
Refit == FitCall(RefitMaxObj, {"None", "True", "False"}, BOOLEAN)

(***************************************************************************)
(* The remaining queries of PatternStructure                               *)
(***************************************************************************)
min_pattern_property ==
    IF IsNone(object_irreducibles) \/ Len(Get(object_irreducibles)) = 0
    THEN Raise(UnfitError)
    ELSE LET irr == Get(object_irreducibles)
             some_pattern == irr[1].ptrn
         IN  Ok(ReduceMeet([i \in DOMAIN irr |-> irr[i].ptrn], some_pattern))

max_pattern_property ==
    IF IsNone(object_irreducibles) \/ Len(Get(object_irreducibles)) = 0
    THEN Raise(UnfitError)
    ELSE LET irr == Get(object_irreducibles)
             some_pattern == irr[1].ptrn
         IN  Ok(ReduceJoin([i \in DOMAIN irr |-> irr[i].ptrn], some_pattern))

iter_atomic_patterns(return_extents, return_bitarrays) ==
    IF IsNone(atomic_patterns) THEN Raise("AttributeError")   \* None.items()
    ELSE LET atoms == Get(atomic_patterns)
             names == IF IsNone(object_names) THEN <<>> ELSE Get(object_names)
         IN  IF ~return_extents THEN Ok([i \in DOMAIN atoms |-> atoms[i].ptrn])
             ELSE IF return_bitarrays THEN Ok(atoms)
             ELSE IF \E i \in DOMAIN atoms : \E g \in atoms[i].ext : g > Len(names)
             THEN Raise("IndexError")
             ELSE Ok([i \in DOMAIN atoms |->
                        [ptrn |-> atoms[i].ptrn, ext |-> NamesOf(names, atoms[i].ext)]])

atomic_patterns_property == iter_atomic_patterns(TRUE, FALSE)

atomic_patterns_order_property ==
    IF IsNone(atomic_patterns_order) THEN Ok(NoneVal)
    ELSE LET atoms == Get(atomic_patterns)
             order == Get(atomic_patterns_order)
         IN  Ok([idx \in DOMAIN order |->
                   [ptrn |-> atoms[idx].ptrn, greater |-> {atoms[v].ptrn : v \in order[idx]}]])

\* object sets given as a bit vector (ba) or as a collection of ids
NObjects == IF IsNone(object_names) THEN 0 ELSE Len(Get(object_names))
ObjectSets(ba) ==
    {[ba |-> ba, v |-> S] : S \in IF ba THEN SUBSET (1..NObjects) ELSE SUBSET Ids(MaxObj)}

\* A query leaves the structure as it is: the outcomes of all queries are those of
\* one query made right after construction or right after a fit.
Query(op, arg, out) ==
    /\ result.op \in {"init", "fit"}
    /\ result' = [op |-> op, arg |-> arg, out |-> out]
    /\ UNCHANGED <<object_names, object_irreducibles, atomic_patterns, atomic_patterns_order>>
    /\ UNCHANGED genVars
    /\ UNCHANGED lindigVars

CallExtent ==
    \E P \in Patterns, return_bitarray \in BOOLEAN :
       Query("extent", [pattern |-> P, return_bitarray |-> return_bitarray],
             extent(P, return_bitarray))

CallIntent ==
    \E ba \in BOOLEAN : \E objects \in ObjectSets(ba) :
       Query("intent", objects, intent(objects))

\* ps.extent(ps.intent(S)), in the representation S was given in
CallExtentOfIntent ==
    \E ba \in BOOLEAN : \E objects \in ObjectSets(ba) :
       LET i == intent(objects)
       IN  Query("extent_of_intent", objects,
                 IF i.kind # "ok" THEN i ELSE extent(i.value, objects.ba))

\* ps.intent(ps.extent(P, return_bitarray=True))
Closure(P) ==
    LET e == extent(P, TRUE)
    IN  IF e.kind # "ok" THEN e ELSE intent([ba |-> TRUE, v |-> e.value])

CallIntentOfExtent ==
    \E P \in Patterns : Query("intent_of_extent", P, Closure(P))

\* the closure applied once and twice
CallClosureTwice ==
    \E X \in Patterns :
       LET once == Closure(X)
       IN  Query("closure_twice", X,
                 IF once.kind # "ok" THEN once
                 ELSE Ok([once |-> once.value, twice |-> Closure(once.value).value]))

CallMinPattern == Query("min_pattern", NoneVal, min_pattern_property)
CallMaxPattern == Query("max_pattern", NoneVal, max_pattern_property)

CallIterAtomicPatterns ==
    \E return_extents, return_bitarrays \in BOOLEAN :
       Query("iter_atomic_patterns",
             [return_extents |-> return_extents, return_bitarrays |-> return_bitarrays],
             iter_atomic_patterns(return_extents, return_bitarrays))

CallAtomicPatterns == Query("atomic_patterns", NoneVal, atomic_patterns_property)
CallAtomicPatternsOrder ==
    Query("atomic_patterns_order", NoneVal, atomic_patterns_order_property)

\* ps.extent(P, return_bitarray=True) and ps.extent(P)
CallExtentBoth ==
    \E P \in Patterns :
       LET bits == extent(P, TRUE)
           ids == extent(P, FALSE)
       IN  Query("extent_both", P,
                 IF bits.kind # "ok" THEN bits
                 ELSE IF ids.kind # "ok" THEN ids
                 ELSE Ok([ba |-> bits.value, ids |-> ids.value]))

\* ps.intent(S) with S given as a bit vector and as the collection of its ids
CallIntentBoth ==
    \E S \in SUBSET (1..NObjects) :
       LET bits == intent([ba |-> TRUE, v |-> S])
           ids == intent([ba |-> FALSE, v |-> {IdList[g] : g \in S}])
       IN  Query("intent_both", S,
                 IF bits.kind # "ok" THEN bits
                 ELSE IF ids.kind # "ok" THEN ids
                 ELSE Ok([ba |-> bits.value, ids |-> ids.value]))

(***************************************************************************)
(* PatternStructure.iter_premaximal_patterns                               *)
(***************************************************************************)
\* the key (extent.count(), extent.search(True)) compared as Python compares tuples
PremaximalKeyLess(a, b) ==
    \/ Cardinality(a) < Cardinality(b)
    \/ /\ Cardinality(a) = Cardinality(b)
       /\ a # b
       /\ Min((a \ b) \cup (b \ a)) \in a

\* sorted(border_pattern_extents, key=...): smallest extents first
RECURSIVE SortPremaximals(_)
SortPremaximals(border_pattern_extents) ==
    IF border_pattern_extents = {} THEN <<>>
    ELSE LET first == CHOOSE e \in border_pattern_extents :
                         \A o \in border_pattern_extents \ {e} :
                            PremaximalKeyLess(e.ext, o.ext) \/ e.ext = o.ext
         IN  <<first>> \o SortPremaximals(border_pattern_extents \ {first})

\* faulty variant: the comparison turned around (other <= pattern)
IsDominated_Reversed(pattern, kept) == \E i \in DOMAIN kept : Le(kept[i].ptrn, pattern)

\* any(other >= pattern for other in premaximals[:i])
IsDominated(pattern, kept) == \E i \in DOMAIN kept : Le(pattern, kept[i].ptrn)

\* the while loop: a pattern below an earlier kept one is deleted
RECURSIVE ScanPremaximals(_, _)
ScanPremaximals(premaximals, kept) ==
    IF premaximals = <<>> THEN kept
    ELSE IF IsDominated(Head(premaximals).ptrn, kept)
         THEN ScanPremaximals(Tail(premaximals), kept)
         ELSE ScanPremaximals(Tail(premaximals), Append(kept, Head(premaximals)))

iter_premaximal_patterns(return_extents, return_bitarrays) ==
    IF IsNone(object_irreducibles) THEN Raise("AssertionError")
    ELSE LET irr == Get(object_irreducibles)
             border_pattern_extents ==
                 {[ptrn |-> irr[i].ptrn, ext |-> ExtentBA(irr, irr[i].ptrn)] : i \in DOMAIN irr}
             kept == ScanPremaximals(SortPremaximals(border_pattern_extents), <<>>)
         IN  IF ~return_extents THEN Ok([i \in DOMAIN kept |-> kept[i].ptrn])
             ELSE IF return_bitarrays THEN Ok(kept)
             ELSE Ok([i \in DOMAIN kept |->
                        [ptrn |-> kept[i].ptrn,
                         ext |-> NamesOf(Get(object_names), kept[i].ext)]])

premaximal_patterns_property == iter_premaximal_patterns(TRUE, FALSE)

CallIterPremaximalPatterns ==
    \E return_extents, return_bitarrays \in BOOLEAN :
       Query("iter_premaximal_patterns",
             [return_extents |-> return_extents, return_bitarrays |-> return_bitarrays],
             iter_premaximal_patterns(return_extents, return_bitarrays))

CallPremaximalPatterns ==
    Query("premaximal_patterns", [return_extents |-> TRUE, return_bitarrays |-> FALSE],
          premaximal_patterns_property)

\* ps.extent(P, return_bitarray=True) and ps.extent(Q, return_bitarray=True)
\* for a pattern P and a pattern Q at least as precise
CallExtentPair ==
    \E P, Q \in Patterns :
       /\ Le(P, Q)
       /\ LET of_P == extent(P, TRUE)
              of_Q == extent(Q, TRUE)
          IN  Query("extent_pair", [P |-> P, Q |-> Q],
                    IF of_P.kind # "ok" THEN of_P
                    ELSE IF of_Q.kind # "ok" THEN of_Q
                    ELSE Ok([of_P |-> of_P.value, of_Q |-> of_Q.value]))

(***************************************************************************)
(* Specifications of the PatternStructure                                  *)
(***************************************************************************)
LindigIdle == Lattice_data_extents = <<>> /\ concept_extent = {}

GenIdle ==
    /\ LindigIdle
    /\ patterns = <<>> /\ atomic_patterns_extents = <<>> /\ min_support = IntValue(0)
    /\ depth_first = TRUE /\ controlled_iteration = FALSE /\ stop_pattern = NoneVal
    /\ stack = <<>> /\ yielded = <<>> /\ pc = "idle"

\* PatternStructure.__init__
InitPS ==
    /\ object_names = NoneVal
    /\ object_irreducibles = NoneVal
    /\ atomic_patterns = NoneVal
    /\ atomic_patterns_order = NoneVal
    /\ result = [op |-> "init"]
    /\ GenIdle

NextPS ==
    \/ FirstFitPlain
    \/ CallExtent
    \/ CallIntent
    \/ CallExtentOfIntent
    \/ CallIntentOfExtent
    \/ CallClosureTwice
    \/ CallMinPattern
    \/ CallMaxPattern
    \/ CallIterAtomicPatterns
    \/ CallAtomicPatterns
    \/ CallAtomicPatternsOrder
    \/ CallIterPremaximalPatterns
    \/ CallPremaximalPatterns
    \/ CallExtentBoth
    \/ CallIntentBoth

\* one structure: constructed, fitted once, queried
SpecPS == InitPS /\ [][NextPS]_vars

NextAtoms ==
    \/ FirstFit
    \/ CallExtentPair
    \/ CallIterAtomicPatterns
    \/ CallAtomicPatterns
    \/ CallAtomicPatternsOrder

\* one structure: constructed, fitted once with its atomic patterns, queried
SpecAtoms == InitPS /\ [][NextAtoms]_vars

NextRefit ==
    \/ Refit
    \/ CallAtomicPatterns
    \/ CallAtomicPatternsOrder

\* one structure fitted any number of times
SpecRefit == InitPS /\ [][NextRefit]_vars

(***************************************************************************)
(* Claims on the PatternStructure                                          *)
(***************************************************************************)
QueryOk(op) == result.op = op /\ result.out.kind = "ok"

\* C2: after fit, for every subset S of the fitted objects,
\* extent(intent(S)) is a superset of S.
C2_ExtentOfIntentCoversS ==
    QueryOk("extent_of_intent") => result.arg.v \subseteq result.out.value

\* C3: after fit, for every pattern P of the domain, P <= intent(extent(P)).
C3_IntentOfExtentAboveP ==
    QueryOk("intent_of_extent") => Le(result.arg, result.out.value)

\* C4: the closure intent o extent is idempotent: for every pattern X,
\* intent(extent(intent(extent(X)))) = intent(extent(X)).
C4_ClosureIdempotent ==
    QueryOk("closure_twice") => result.out.value.twice = result.out.value.once

\* C4 witness: the closure was applied to a pattern it changes, described by some object
C4_Witness ==
    /\ QueryOk("closure_twice")
    /\ result.out.value.once # result.arg
    /\ ExtentBA(Get(object_irreducibles), result.arg) # {}
    /\ Len(Get(object_irreducibles)) >= 2

FitComputed == result.op = "fit" /\ result.out.kind = "ok" /\ result.computed

\* C5: after init_atomic_patterns the stored greater-set of every atomic pattern A
\* is exactly the set of atomic patterns B with A < B, as found by comparing all pairs.
C5_OrderIsBruteForce ==
    FitComputed =>
        LET atoms == Get(atomic_patterns)
            order == Get(atomic_patterns_order)
        IN  /\ Len(order) = Len(atoms)
            /\ \A a \in DOMAIN atoms :
                  order[a] = {b \in DOMAIN atoms : Lt(atoms[a].ptrn, atoms[b].ptrn)}

\* C5 witness: a fitted order in which a greater pattern was absorbed through a chain
\* A < B < C, with B in a strictly smaller extent than A and C sharing the extent of B
C5_Witness ==
    /\ FitComputed
    /\ \E a, b, c \in DOMAIN Get(atomic_patterns) :
          LET atoms == Get(atomic_patterns)
              order == Get(atomic_patterns_order)
          IN  /\ b \in order[a] /\ c \in order[b] /\ c \in order[a]
              /\ atoms[b].ext # atoms[a].ext /\ atoms[b].ext \subseteq atoms[a].ext
              /\ atoms[c].ext = atoms[b].ext

\* C7: after any sequence of fits, a fit that computes no atomic patterns leaves
\* no atomic patterns or order of an earlier fit behind.
C7_RefitReplacesDerivedState ==
    (result.op = "fit" /\ result.out.kind = "ok" /\ ~result.computed)
        => IsNone(atomic_patterns) /\ IsNone(atomic_patterns_order)

QueryOps == {"extent", "intent", "min_pattern", "max_pattern", "iter_atomic_patterns",
             "atomic_patterns", "atomic_patterns_order"}

\* C8: every query made before a fit fails with the unfit-state ValueError.
C8_QueriesBeforeFitRaiseUnfit ==
    (IsNone(object_names) /\ result.op \in QueryOps) => result.out.kind = UnfitError

\* the description an object was fitted with, and the objects a pattern describes
DescriptionOf(g) ==
    LET irr == Get(object_irreducibles)
    IN  irr[CHOOSE i \in DOMAIN irr : g \in irr[i].ext].ptrn

DescribedObjects(pattern) == {g \in 1..NObjects : Le(pattern, DescriptionOf(g))}

PremaximalOps == {"iter_premaximal_patterns", "premaximal_patterns"}

PremaximalOk == result.op \in PremaximalOps /\ result.out.kind = "ok"

\* C11: the premaximal patterns returned are an antichain (none is <= another),
\* every object-irreducible pattern is <= some returned pattern, and each
\* returned pattern is paired with its own extent.
C11_PremaximalsAntichainDominating ==
    PremaximalOk =>
        LET out == result.out.value
            irr == Get(object_irreducibles)
            ptrn(i) == IF result.arg.return_extents THEN out[i].ptrn ELSE out[i]
        IN  /\ \A i, j \in DOMAIN out : i # j => ~Le(ptrn(i), ptrn(j))
            /\ \A q \in DOMAIN irr : \E i \in DOMAIN out : Le(irr[q].ptrn, ptrn(i))
            /\ result.arg.return_extents =>
                  \A i \in DOMAIN out :
                     out[i].ext = IF result.arg.return_bitarrays
                                  THEN DescribedObjects(out[i].ptrn)
                                  ELSE NamesOf(Get(object_names), DescribedObjects(out[i].ptrn))

\* C11 witness: premaximal patterns with extents were asked of data in which
\* some description is below another and two premaximal patterns remain
C11_Witness ==
    /\ PremaximalOk /\ result.arg.return_extents
    /\ Len(result.out.value) >= 2
    /\ Len(result.out.value) < Len(Get(object_irreducibles))

FittedWithObjects == ~IsNone(object_names) /\ Len(Get(object_names)) > 0

\* C12: after fit, extent(P) is the union of the extents of the irreducible
\* patterns Q with P <= Q (empty when there is none, all objects when P is below
\* every description), and the bit vector and the id set denote the same objects.
C12_ExtentIsUnionOfIrreducibles ==
    (FittedWithObjects /\ result.op = "extent_both") =>
        /\ result.out.kind = "ok"
        /\ LET irr == Get(object_irreducibles)
               names == Get(object_names)
               above == {i \in DOMAIN irr : Le(result.arg, irr[i].ptrn)}
               out == result.out.value
           IN  /\ out.ba = UNION {irr[i].ext : i \in above}
               /\ above = {} => out.ba = {}
               /\ above = DOMAIN irr => out.ba = 1..Len(names)
               /\ out.ids = {names[g] : g \in out.ba}

\* C12 witness: the extent of a pattern that two distinct descriptions are above
\* and a third is not
C12_Witness ==
    /\ QueryOk("extent_both")
    /\ LET irr == Get(object_irreducibles)
           above == {i \in DOMAIN irr : Le(result.arg, irr[i].ptrn)}
       IN  Cardinality(above) >= 2 /\ above # DOMAIN irr
    /\ Cardinality(result.out.value.ids) >= 2

C14_FitBuildsIrreducibles ==
    result.op = "fit" =>
        LET names == Get(object_names)
            irr == Get(object_irreducibles)
            descr == result.arg.descr
            n == Len(descr)
        IN  /\ names = result.arg.names
            /\ {irr[i].ptrn : i \in DOMAIN irr} = Range(descr)
            /\ \A i, j \in DOMAIN irr : irr[i].ptrn = irr[j].ptrn => i = j
            /\ \A i \in DOMAIN irr :
                  /\ irr[i].ext = {g \in 1..n : descr[g] = irr[i].ptrn}
                  /\ irr[i].ext # {}
                  /\ irr[i].ext \subseteq 1..n
            /\ \A i, j \in DOMAIN irr : i # j => irr[i].ext \cap irr[j].ext = {}
            /\ UNION {irr[i].ext : i \in DOMAIN irr} = 1..n

\* C14 witness: a fit of three objects of which the first and the last share a
\* description
C14_Witness ==
    /\ result.op = "fit" /\ Len(result.arg.descr) = 3
    /\ result.arg.descr[1] = result.arg.descr[3]
    /\ result.arg.descr[1] # result.arg.descr[2]
    /\ Len(Get(object_irreducibles)) = 2

\* C15: after init_atomic_patterns the atomic patterns are exactly the atomic
\* decompositions of all object-irreducible patterns, each once, and the extent
\* stored with an atomic pattern A is the union of the extents of the
\* irreducible patterns Q with A <= Q.
C15_AtomsAreDecompositionsWithExtents ==
    FitComputed =>
        LET atoms == Get(atomic_patterns)
            irr == Get(object_irreducibles)
        IN  /\ {atoms[a].ptrn : a \in DOMAIN atoms}
                  = UNION {AtomicPatternsOf(irr[q].ptrn) : q \in DOMAIN irr}
            /\ \A a, b \in DOMAIN atoms : atoms[a].ptrn = atoms[b].ptrn => a = b
            /\ \A a \in DOMAIN atoms :
                  atoms[a].ext =
                     UNION {irr[q].ext : q \in {r \in DOMAIN irr : Le(atoms[a].ptrn, irr[r].ptrn)}}

\* C15 witness: atomic patterns computed from two descriptions that share an
\* atomic pattern, two of the atomic patterns having one extent
C15_Witness ==
    /\ FitComputed
    /\ LET atoms == Get(atomic_patterns)
           irr == Get(object_irreducibles)
       IN  /\ Len(irr) >= 2
           /\ \E q, r \in DOMAIN irr :
                 q # r /\ AtomicPatternsOf(irr[q].ptrn) \cap AtomicPatternsOf(irr[r].ptrn) # {}
           /\ \E a, b \in DOMAIN atoms : a # b /\ atoms[a].ext = atoms[b].ext

\* C16: the atomic patterns are listed by non-increasing extent size, extents of
\* one size by the lexicographic order of their object positions, patterns of
\* one extent next to each other, and A before B whenever A < B.
C16_AtomsListedCoarsestFirst ==
    FitComputed =>
        LET atoms == Get(atomic_patterns)
        IN  \A a, b \in DOMAIN atoms :
               /\ a < b => Cardinality(atoms[a].ext) >= Cardinality(atoms[b].ext)
               /\ (a < b /\ atoms[a].ext # atoms[b].ext
                         /\ Cardinality(atoms[a].ext) = Cardinality(atoms[b].ext))
                     => Min((atoms[a].ext \ atoms[b].ext) \cup (atoms[b].ext \ atoms[a].ext))
                          \in atoms[a].ext
               /\ (a < b /\ atoms[a].ext = atoms[b].ext)
                     => \A c \in a..b : atoms[c].ext = atoms[a].ext
               /\ Lt(atoms[a].ptrn, atoms[b].ptrn) => a < b

\* C16 witness: a list with two comparable atomic patterns of one extent and two
\* distinct extents of one size
C16_Witness ==
    /\ FitComputed
    /\ LET atoms == Get(atomic_patterns)
       IN  /\ \E a, b \in DOMAIN atoms :
                 atoms[a].ext = atoms[b].ext /\ Lt(atoms[a].ptrn, atoms[b].ptrn)
           /\ \E a, b \in DOMAIN atoms :
                 /\ atoms[a].ext # atoms[b].ext
                 /\ Cardinality(atoms[a].ext) = Cardinality(atoms[b].ext)

\* C17: the stored order is transitive: if B is in the greater-set of A and C in
\* the greater-set of B, then C is in the greater-set of A.
C17_StoredOrderTransitive ==
    FitComputed =>
        LET order == Get(atomic_patterns_order)
        IN  \A a \in DOMAIN order : \A b \in order[a] : order[b] \subseteq order[a]

\* C17 witness: a stored order with a chain of three atomic patterns
C17_Witness ==
    /\ FitComputed
    /\ LET order == Get(atomic_patterns_order)
       IN  \E a \in DOMAIN order : \E b \in order[a] : order[b] # {}

\* C22: after fit(object_descriptions) with compute_atomic_patterns unset, the
\* atomic patterns are computed exactly when the descriptions support the atomic
\* decomposition: unset when atomic_patterns raises NotImplementedError, and
\* otherwise populated by init_atomic_patterns.
C22_UnsetFlagFollowsDomain ==
    (/\ result.op = "fit"
     /\ result.arg.compute_atomic_patterns = "None"
     /\ Len(result.arg.descr) > 0) =>
        IF result.arg.atomisable
        THEN /\ result.out = Ok(NoneVal)
             /\ ~IsNone(atomic_patterns) /\ ~IsNone(atomic_patterns_order)
        ELSE /\ result.out = Ok(NoneVal)
             /\ IsNone(atomic_patterns) /\ IsNone(atomic_patterns_order)

\* C30: extent is order-reversing: for P <= Q the extent of Q is contained in the
\* extent of P; the stored extent of every atomic pattern contains the stored
\* extent of every pattern of its greater-set.
C30_ExtentIsOrderReversing ==
    /\ (result.op = "extent_pair" /\ result.out.kind = "ok") =>
          result.out.value.of_Q \subseteq result.out.value.of_P
    /\ (~IsNone(atomic_patterns) /\ ~IsNone(atomic_patterns_order)) =>
          LET atoms == Get(atomic_patterns)
              order == Get(atomic_patterns_order)
          IN  \A a \in DOMAIN order : \A b \in order[a] : atoms[b].ext \subseteq atoms[a].ext

\* C30 witness: the extents of P < Q differ and the extent of Q is not empty, in a
\* structure whose stored order has a greater-set with a smaller extent
C30_Witness ==
    /\ result.op = "extent_pair" /\ result.out.kind = "ok"
    /\ result.arg.P # result.arg.Q
    /\ result.out.value.of_Q # {}
    /\ result.out.value.of_Q # result.out.value.of_P
    /\ ~IsNone(atomic_patterns) /\ ~IsNone(atomic_patterns_order)
    /\ LET atoms == Get(atomic_patterns)
           order == Get(atomic_patterns_order)
       IN  \E a \in DOMAIN order : \E b \in order[a] : atoms[b].ext # atoms[a].ext

(***************************************************************************)
(* iter_intents_via_ocbo                                                   *)
(***************************************************************************)
\* bfuncs.group_objects_by_patterns: every distinct pattern with its objects
GroupObjectsByPatterns(ptrns) == BuildIrreducibles(ptrns, 1, <<>>)

\* bfuncs.intention: the meet of the patterns of the objects of the extent
\* (of no object: the join of all patterns)
Intention(ext, objects_per_pattern) ==
    LET idx == {i \in DOMAIN objects_per_pattern : objects_per_pattern[i].ext \cap ext # {}}
    IN  IF idx = {}
        THEN UNION {objects_per_pattern[i].ptrn : i \in DOMAIN objects_per_pattern}
        ELSE LET first == objects_per_pattern[Min(idx)].ptrn
             IN  {v \in first : \A i \in idx : v \in objects_per_pattern[i].ptrn}

\* bfuncs.extension: the objects whose pattern is at least as precise
Extension(pattern, objects_per_pattern) ==
    UNION {objects_per_pattern[i].ext :
             i \in {j \in DOMAIN objects_per_pattern : Le(pattern, objects_per_pattern[j].ptrn)}}

ProtoExtent(known_extent, object_to_add) ==
    IF object_to_add >= 1 THEN known_extent \cup {object_to_add} ELSE known_extent

\* faulty variant: the canonicity test left out
HasObjectsNotInLexOrder_Never(ext, proto_extent, object_to_add) == FALSE

\* (object_to_add >= 0) and (extent & ~proto_extent)[:object_to_add].any()
HasObjectsNotInLexOrder(ext, proto_extent, object_to_add) ==
    (object_to_add >= 1) /\ (\E g \in ext \ proto_extent : g < object_to_add)

\* faulty variant: extent.search(True, ...), the later objects inside the extent
OcboNextSteps_InExtent(ext, object_to_add, n_objects) ==
    LET gs == {g \in 1..n_objects : g > object_to_add /\ g \in ext}
    IN  [k \in 1..Cardinality(gs) |->
           [known_extent |-> ext,
            object_to_add |-> CHOOSE g \in gs : Cardinality({h \in gs : h < g}) = k - 1]]

\* [(extent, g) for g in extent.search(False, object_to_add+1)]
OcboNextSteps(ext, object_to_add, n_objects) ==
    LET gs == {g \in 1..n_objects : g > object_to_add /\ g \notin ext}
    IN  [k \in 1..Cardinality(gs) |->
           [known_extent |-> ext,
            object_to_add |-> CHOOSE g \in gs : Cardinality({h \in gs : h < g}) = k - 1]]

\* faulty variant: the children are pushed in forward order
OcboPush_Forward(rest, next_steps) == rest \o next_steps

\* stack.extend(next_steps[::-1])
OcboPush(rest, next_steps) == rest \o Reverse(next_steps)

\* iter_intents_via_ocbo(patterns): the generator is created
OcboInitUpTo(max_objects) ==
    /\ LindigIdle
    /\ \E n \in 1..max_objects : patterns \in [1..n -> Patterns]
    /\ stack = <<[known_extent |-> {}, object_to_add |-> 0]>>
    /\ yielded = <<>>
    /\ pc = "ocbo"
    /\ atomic_patterns_extents = <<>> /\ min_support = IntValue(0) /\ depth_first = TRUE
    /\ controlled_iteration = FALSE /\ stop_pattern = NoneVal
    /\ object_names = NoneVal /\ object_irreducibles = NoneVal
    /\ atomic_patterns = NoneVal /\ atomic_patterns_order = NoneVal
    /\ result = [op |-> "init"]

OcboInit == OcboInitUpTo(MaxOcboObj)

\* one pass of the while loop
OcboStep ==
    /\ pc = "ocbo" /\ stack # <<>>
    /\ LET objects_per_pattern == GroupObjectsByPatterns(patterns)
           n_objects == Len(patterns)
           top == stack[Len(stack)]
           rest == SubSeq(stack, 1, Len(stack) - 1)
           proto_extent == ProtoExtent(top.known_extent, top.object_to_add)
           int == Intention(proto_extent, objects_per_pattern)
           ext == Extension(int, objects_per_pattern)
       IN  IF HasObjectsNotInLexOrder(ext, proto_extent, top.object_to_add)
           THEN /\ stack' = rest
                /\ UNCHANGED yielded
           ELSE /\ yielded' = Append(yielded, int)
                /\ stack' = OcboPush(rest, OcboNextSteps(ext, top.object_to_add, n_objects))
    /\ UNCHANGED <<pc, patterns, atomic_patterns_extents, min_support, depth_first,
                   controlled_iteration, stop_pattern>>
    /\ UNCHANGED psVars
    /\ UNCHANGED lindigVars

\* the stack is empty: the generator ends
OcboEnd ==
    /\ pc = "ocbo" /\ stack = <<>>
    /\ pc' = "done"
    /\ UNCHANGED <<patterns, atomic_patterns_extents, min_support, depth_first,
                   controlled_iteration, stop_pattern, stack, yielded>>
    /\ UNCHANGED psVars
    /\ UNCHANGED lindigVars

NextOcbo == OcboStep \/ OcboEnd

SpecOcbo == OcboInit /\ [][NextOcbo]_vars

\* the intent of a set of objects, from the definition of the concept lattice
SubsetIntent(S) ==
    IF S = {} THEN UNION Range(patterns)
    ELSE {v \in Items : \A g \in S : v \in patterns[g]}

NoDuplicates(s) == \A i, j \in DOMAIN s : s[i] = s[j] => i = j

\* C1: iter_intents_via_ocbo yields exactly the intents of all object subsets
\* (the empty subset included), each exactly once.
C1_OcboYieldsAllIntentsOnce ==
    (pc = "done" /\ patterns # <<>>) =>
        /\ Range(yielded) = {SubsetIntent(S) : S \in SUBSET (1..Len(patterns))}
        /\ NoDuplicates(yielded)

\* C1 witness: a finished run over objects of which two share a description,
\* with at least four concepts
C1_Witness ==
    /\ pc = "done" /\ Len(patterns) >= 3
    /\ \E g, h \in DOMAIN patterns : g # h /\ patterns[g] = patterns[h]
    /\ Len(yielded) >= 4

\* the depth-first preorder of the canonical tree below (known_extent, object_to_add):
\* the intent of the node, then the branches by increasing added object
RECURSIVE OcboPreorder(_, _, _, _)
RECURSIVE OcboBranches(_, _, _)
OcboPreorder(objects_per_pattern, n_objects, known_extent, object_to_add) ==
    LET proto_extent == ProtoExtent(known_extent, object_to_add)
        int == Intention(proto_extent, objects_per_pattern)
        ext == Extension(int, objects_per_pattern)
    IN  IF (object_to_add >= 1) /\ (\E g \in ext \ proto_extent : g < object_to_add)
        THEN <<>>
        ELSE <<int>> \o OcboBranches(objects_per_pattern, n_objects,
                                     OcboNextSteps(ext, object_to_add, n_objects))

OcboBranches(objects_per_pattern, n_objects, next_steps) ==
    IF next_steps = <<>> THEN <<>>
    ELSE OcboPreorder(objects_per_pattern, n_objects,
                      Head(next_steps).known_extent, Head(next_steps).object_to_add)
           \o OcboBranches(objects_per_pattern, n_objects, Tail(next_steps))

IsPrefix(s, t) == Len(s) <= Len(t) /\ s = SubSeq(t, 1, Len(s))

\* C18: iter_intents_via_ocbo yields the intents in the depth-first preorder of
\* the canonical tree: first the intent of the empty object set, then below
\* every yielded concept the branches by increasing index of the added object,
\* each branch finished before the next begins.
C18_OcboDepthFirstPreorder ==
    (pc \in {"ocbo", "done"} /\ patterns # <<>>) =>
        LET preorder == OcboPreorder(GroupObjectsByPatterns(patterns), Len(patterns), {}, 0)
        IN  /\ IsPrefix(yielded, preorder)
            /\ pc = "done" => yielded = preorder
            /\ yielded # <<>> => yielded[1] = SubsetIntent({})

\* C18 witness: a finished run with a branch two levels deep followed by an
\* intent of a later branch
C18_Witness ==
    /\ pc = "done" /\ patterns # <<>>
    /\ \E i \in DOMAIN yielded :
          /\ i + 3 <= Len(yielded)
          /\ Lt(yielded[i + 1], yielded[i]) /\ Lt(yielded[i + 2], yielded[i + 1])
          /\ ~Le(yielded[i + 3], yielded[i + 2])

\* what a pass of the loop that yields pushes: the frames above the rest of the
\* stack are one per object of children, each with the computed extent as its
\* known_extent, the smallest object on top
OcboPushes(children) ==
    LET computed == Extension(yielded'[Len(yielded')], GroupObjectsByPatterns(patterns))
        pushed == SubSeq(stack', Len(stack), Len(stack'))
    IN  /\ SubSeq(stack', 1, Len(stack) - 1) = SubSeq(stack, 1, Len(stack) - 1)
        /\ Len(pushed) = Cardinality(children)
        /\ {pushed[i].object_to_add : i \in DOMAIN pushed} = children
        /\ \A i \in DOMAIN pushed : pushed[i].known_extent = computed
        /\ \A i, j \in DOMAIN pushed :
              i < j => pushed[i].object_to_add > pushed[j].object_to_add

\* C25 as stated: after an intent is yielded for (known_extent, g), the children
\* pushed are the objects with index > g that are in the computed extent but not
\* in known_extent.
C25_ChildrenInsideExtent ==
    [][(OcboStep /\ yielded' # yielded) =>
         LET top == stack[Len(stack)]
             computed == Extension(yielded'[Len(yielded')], GroupObjectsByPatterns(patterns))
         IN  OcboPushes({h \in 1..Len(patterns) :
                           /\ h > top.object_to_add
                           /\ h \in computed /\ h \notin top.known_extent})]_vars

\* C25, amended: after an intent is yielded for (known_extent, g), one child is
\* pushed per object with index > g that is not in the computed extent, with the
\* computed extent as its known_extent, in reverse order: the leftmost child is
\* on top of the stack.
C25_ChildrenOutsideExtent ==
    [][(OcboStep /\ yielded' # yielded) =>
         LET top == stack[Len(stack)]
             computed == Extension(yielded'[Len(yielded')], GroupObjectsByPatterns(patterns))
         IN  OcboPushes({h \in 1..Len(patterns) :
                           h > top.object_to_add /\ h \notin computed})]_vars

\* C25 witness: a pushed child whose object is outside the computed extent while
\* a later object is inside, added by the closure
C25_Witness ==
    /\ pc = "ocbo" /\ yielded # <<>>
    /\ \E i \in DOMAIN stack :
          /\ stack[i].object_to_add \notin stack[i].known_extent
          /\ \E h \in stack[i].known_extent : h > stack[i].object_to_add

(***************************************************************************)
(* iter_all_patterns                                                       *)
(*                                                                         *)
(* atomic_patterns_extents is the ordered mapping as a sequence of         *)
(* [ptrn, ext] records; the extents are bitarrays over the objects of      *)
(* `patterns`, so that their common length is Len(patterns).               *)
(***************************************************************************)
\* atomic_patterns_extents[first_pattern] | ~atomic_patterns_extents[first_pattern]
TotalExtent(n_objects) == 1..n_objects

\* reduce(meet_func, atomic_patterns): min_pattern of the class is None
SeedPattern(apes) ==
    LET atomic_patterns_list == [i \in DOMAIN apes |-> apes[i].ptrn]
    IN  ReduceMeet(Tail(atomic_patterns_list), Head(atomic_patterns_list))

\* [(bazeros(n_atoms), i) for i in range(n_atoms)]
InitialFrames(apes) == [i \in DOMAIN apes |-> [involved_patterns |-> {}, pattern_to_add |-> i]]

\* reduce(bitarray.__and__, proto_closure_extents, total_extent)
FrameExtent(apes, n_objects, proto_closure) ==
    {g \in TotalExtent(n_objects) : \A i \in proto_closure : g \in apes[i].ext}

\* reduce(join_func, (atomic_patterns[i] for i in proto_closure.search(True)), min_pattern)
NewPattern(apes, proto_closure) ==
    Join(SeedPattern(apes), UNION {apes[i].ptrn : i \in proto_closure})

\* faulty variant: the canonicity test left out
HasAtomsNotInLexOrder_Never(apes, involved_patterns, pattern_to_add, new_pattern) == FALSE

\* any(atomic_patterns[i] <= new_pattern for i in involved_patterns.search(False, 0, pattern_to_add))
HasAtomsNotInLexOrder(apes, involved_patterns, pattern_to_add, new_pattern) ==
    \E i \in 1..(pattern_to_add - 1) : i \notin involved_patterns /\ Le(apes[i].ptrn, new_pattern)

\* faulty variant: the atoms below the new pattern are not added to the closure
FrameClosure_Proto(apes, proto_closure, pattern_to_add, new_pattern) == proto_closure

\* closure[i] = atomic_patterns[i] <= new_pattern for the unset i after pattern_to_add
FrameClosure(apes, proto_closure, pattern_to_add, new_pattern) ==
    proto_closure \cup {i \in DOMAIN apes : i > pattern_to_add /\ i \notin proto_closure
                                            /\ Le(apes[i].ptrn, new_pattern)}

\* faulty variant: closure.search(False), the search not started after pattern_to_add
AllNextSteps_AnyIndex(apes, closure, pattern_to_add) ==
    LET is == {i \in DOMAIN apes : i \notin closure}
    IN  [k \in 1..Cardinality(is) |->
           [involved_patterns |-> closure,
            pattern_to_add |-> CHOOSE i \in is : Cardinality({h \in is : h < i}) = k - 1]]

\* [(closure, i) for i in closure.search(False, pattern_to_add+1)]
AllNextSteps(apes, closure, pattern_to_add) ==
    LET is == {i \in DOMAIN apes : i > pattern_to_add /\ i \notin closure}
    IN  [k \in 1..Cardinality(is) |->
           [involved_patterns |-> closure,
            pattern_to_add |-> CHOOSE i \in is : Cardinality({h \in is : h < i}) = k - 1]]

\* extent.count() < min_support
SupportBelow(count, min_sup) == count * min_sup.den < min_sup.num

\* the body of the while loop for one frame, up to the yield
ProcessFrame(apes, n_objects, min_sup, frame) ==
    LET proto_closure == frame.involved_patterns \cup {frame.pattern_to_add}
        ext == FrameExtent(apes, n_objects, proto_closure)
        new_pattern == NewPattern(apes, proto_closure)
        closure == FrameClosure(apes, proto_closure, frame.pattern_to_add, new_pattern)
    IN  IF SupportBelow(Cardinality(ext), min_sup)
        THEN [yields |-> FALSE]
        ELSE IF HasAtomsNotInLexOrder(apes, frame.involved_patterns, frame.pattern_to_add, new_pattern)
        THEN [yields |-> FALSE]
        ELSE [yields |-> TRUE, ptrn |-> new_pattern, ext |-> ext,
              next_steps |-> AllNextSteps(apes, closure, frame.pattern_to_add)]

\* faulty variant: the depth-first stack is created in forward order
StartStack_Forward(frames, df) == frames

\* the stack as created: reversed for the depth-first stack, forward for the queue
StartStack(frames, df) == IF df THEN Reverse(frames) ELSE frames

\* stack.pop() of the depth-first stack, the head of the breadth-first queue
NextFrame(st, df) == IF df THEN st[Len(st)] ELSE Head(st)

RestFrames(st, df) == IF df THEN SubSeq(st, 1, Len(st) - 1) ELSE Tail(st)

\* faulty variant: the depth-first stack is replaced by the children
PushFrames_Overwrite(rest, next_steps, df) ==
    IF df THEN Reverse(next_steps) ELSE rest \o next_steps

\* stack.extend(next_steps[::-1]); the queue is extended in forward order
PushFrames(rest, next_steps, df) ==
    IF df THEN rest \o Reverse(next_steps) ELSE rest \o next_steps

\* the caller of the controlled iteration: go_deeper = (pattern != stop_pattern)
GoDeeper(pattern) == IsNone(stop_pattern) \/ pattern # Get(stop_pattern)

\* the children of a yielded pattern are pushed unless the caller declined
Expand(controlled, go_deeper) == (~controlled) \/ go_deeper

AtomPatterns == {Down(v) : v \in Items}

AtomExtents(atoms, descr) ==
    [i \in DOMAIN atoms |->
       [ptrn |-> atoms[i], ext |-> {g \in DOMAIN descr : Le(atoms[i], descr[g])}]]

\* iter_all_patterns(atomic_patterns_extents, min_support, depth_first,
\* controlled_iteration): the generator is created
AllInit(controlled, max_objects, max_atoms, supports) ==
    /\ LindigIdle
    /\ \E n \in 1..max_objects : patterns \in [1..n -> Patterns]
    /\ \E k \in 1..max_atoms : \E atoms \in InjectiveSeqs(AtomPatterns, k) :
          atomic_patterns_extents = AtomExtents(atoms, patterns)
    /\ min_support \in supports
    /\ depth_first \in BOOLEAN
    /\ controlled_iteration = controlled
    /\ stop_pattern \in (IF controlled THEN {Some(p) : p \in Patterns} ELSE {NoneVal})
    /\ stack = <<>>
    /\ yielded = <<>>
    /\ pc = "seed"
    /\ object_names = NoneVal /\ object_irreducibles = NoneVal
    /\ atomic_patterns = NoneVal /\ atomic_patterns_order = NoneVal
    /\ result = [op |-> "init"]

\* yield min_pattern, total_extent; then the stack is created
AllSeed ==
    /\ pc = "seed"
    /\ LET min_pattern == SeedPattern(atomic_patterns_extents)
       IN  /\ yielded' = Append(yielded, [ptrn |-> min_pattern,
                                          ext |-> TotalExtent(Len(patterns))])
           /\ IF Expand(controlled_iteration, GoDeeper(min_pattern))
              THEN /\ stack' = StartStack(InitialFrames(atomic_patterns_extents), depth_first)
                   /\ pc' = "loop"
              ELSE /\ stack' = <<>>
                   /\ pc' = "done"
    /\ UNCHANGED <<patterns, atomic_patterns_extents, min_support, depth_first,
                   controlled_iteration, stop_pattern>>
    /\ UNCHANGED psVars
    /\ UNCHANGED lindigVars

\* one pass of the while loop
AllStep ==
    /\ pc = "loop" /\ stack # <<>>
    /\ LET frame == NextFrame(stack, depth_first)
           rest == RestFrames(stack, depth_first)
           r == ProcessFrame(atomic_patterns_extents, Len(patterns), min_support, frame)
       IN  IF ~r.yields
           THEN /\ stack' = rest
                /\ UNCHANGED yielded
           ELSE /\ yielded' = Append(yielded, [ptrn |-> r.ptrn, ext |-> r.ext])
                /\ stack' = IF Expand(controlled_iteration, GoDeeper(r.ptrn))
                            THEN PushFrames(rest, r.next_steps, depth_first)
                            ELSE rest
    /\ UNCHANGED <<pc, patterns, atomic_patterns_extents, min_support, depth_first,
                   controlled_iteration, stop_pattern>>
    /\ UNCHANGED psVars
    /\ UNCHANGED lindigVars

\* the stack is empty: the generator ends
AllEnd ==
    /\ pc = "loop" /\ stack = <<>>
    /\ pc' = "done"
    /\ UNCHANGED <<patterns, atomic_patterns_extents, min_support, depth_first,
                   controlled_iteration, stop_pattern, stack, yielded>>
    /\ UNCHANGED psVars
    /\ UNCHANGED lindigVars

NextAll == AllSeed \/ AllStep \/ AllEnd

AllPatternsInit == AllInit(FALSE, MaxCboObj, MaxAtoms, {IntValue(k) : k \in 0..(MaxCboObj + 1)})

SpecAllPatterns == AllPatternsInit /\ [][NextAll]_vars

ControlledInit == AllInit(TRUE, MaxCtlObj, MaxAtoms, {IntValue(0)})

SpecControlled == ControlledInit /\ [][NextAll]_vars

FractionInit == AllInit(FALSE, MaxFracObj, MaxAtoms, Fractions(MaxDen))

\* iter_all_patterns called with a min_support strictly between 0 and 1
SpecFraction == FractionInit /\ [][NextAll]_vars

\* the while loop run to its end by a caller that takes every pattern
RECURSIVE DrainAll(_, _, _, _, _, _)
DrainAll(apes, n_objects, min_sup, df, st, ys) ==
    IF st = <<>> THEN ys
    ELSE LET r == ProcessFrame(apes, n_objects, min_sup, NextFrame(st, df))
             rest == RestFrames(st, df)
         IN  IF ~r.yields
             THEN DrainAll(apes, n_objects, min_sup, df, rest, ys)
             ELSE DrainAll(apes, n_objects, min_sup, df,
                           PushFrames(rest, r.next_steps, df),
                           Append(ys, [ptrn |-> r.ptrn, ext |-> r.ext]))

\* list(iter_all_patterns(atomic_patterns_extents, min_support, depth_first))
ListAllPatterns(apes, n_objects, min_sup, df) ==
    DrainAll(apes, n_objects, min_sup, df, StartStack(InitialFrames(apes), df),
             <<[ptrn |-> SeedPattern(apes), ext |-> TotalExtent(n_objects)]>>)

Finished == pc = "done"

\* the depth-first preorder of the tree below a frame: the pair of the frame,
\* then the branches by increasing index of the added atomic pattern
RECURSIVE AllPreorder(_, _, _, _)
RECURSIVE AllBranches(_, _, _, _)
AllPreorder(apes, n_objects, min_sup, frame) ==
    LET r == ProcessFrame(apes, n_objects, min_sup, frame)
    IN  IF ~r.yields THEN <<>>
        ELSE <<[ptrn |-> r.ptrn, ext |-> r.ext]>>
               \o AllBranches(apes, n_objects, min_sup, r.next_steps)

AllBranches(apes, n_objects, min_sup, next_steps) ==
    IF next_steps = <<>> THEN <<>>
    ELSE AllPreorder(apes, n_objects, min_sup, Head(next_steps))
           \o AllBranches(apes, n_objects, min_sup, Tail(next_steps))

C6_MinSupportFilters ==
    (Finished /\ ~controlled_iteration /\ atomic_patterns_extents # <<>>
              /\ min_support.den = 1) =>
        Range(yielded) =
            {y \in Range(ListAllPatterns(atomic_patterns_extents, Len(patterns), IntValue(0), depth_first)) :
                Cardinality(y.ext) >= min_support.num}

\* the list without the patterns strictly more precise than the stop pattern
\* that come after position d
RECURSIVE WithoutPruned(_, _, _)
WithoutPruned(full, d, i) ==
    IF i > Len(full) THEN <<>>
    ELSE (IF i > d /\ Lt(Get(stop_pattern), full[i].ptrn) THEN <<>> ELSE <<full[i]>>)
            \o WithoutPruned(full, d, i + 1)

FirstDecline(s) ==
    LET at == {i \in DOMAIN s : s[i].ptrn = Get(stop_pattern)}
    IN  IF at = {} THEN Len(s) + 1 ELSE Min(at)

\* the three parts of C9 for a finished controlled run
DeclineHonoured ==
    LET full == ListAllPatterns(atomic_patterns_extents, Len(patterns), min_support, depth_first)
        d == FirstDecline(full)
    IN  IF yielded[1].ptrn = Get(stop_pattern)
        THEN Len(yielded) = 1
        ELSE /\ \A i, j \in DOMAIN yielded :
                   (i < j /\ yielded[i].ptrn = Get(stop_pattern))
                       => ~Lt(Get(stop_pattern), yielded[j].ptrn)
             /\ yielded = WithoutPruned(full, d, 1)

C20_FractionIsConvertedToCount ==
    (Finished /\ ~controlled_iteration /\ atomic_patterns_extents # <<>>
              /\ min_support.den > 1) =>
        LET n_objects == Len(patterns)
            threshold == (n_objects * min_support.num + min_support.den - 1) \div min_support.den
        IN  \A i \in DOMAIN yielded : Cardinality(yielded[i].ext) >= threshold

\* iter_all_patterns over few objects, with every list of atomic patterns
PushesInit == AllInit(FALSE, MaxFairObj, MaxAtoms, {IntValue(k) : k \in 0..1})

SpecPushes == PushesInit /\ [][NextAll]_vars

\* C26: after new_pattern is yielded from the frame (involved, k), the frames
\* pushed are exactly (closure, i) for every i > k whose atom is neither in
\* involved nor <= new_pattern, where closure is involved with k and with every
\* i > k whose atom is <= new_pattern; no pushed frame adds an atom that is in
\* its involved set or implied by the pattern of its parent.
C26_PushedFramesAreTheOpenAtoms ==
    [][(AllStep /\ yielded' # yielded) =>
         LET frame == NextFrame(stack, depth_first)
             apes == atomic_patterns_extents
             involved == frame.involved_patterns
             k == frame.pattern_to_add
             new_pattern == yielded'[Len(yielded')].ptrn
             closure == (involved \cup {k})
                          \cup {i \in DOMAIN apes : i > k /\ Le(apes[i].ptrn, new_pattern)}
             children == {i \in DOMAIN apes :
                            i > k /\ i \notin involved /\ ~Le(apes[i].ptrn, new_pattern)}
             pushed == SubSeq(stack', Len(stack), Len(stack'))
         IN  /\ Len(pushed) = Cardinality(children)
             /\ Range(pushed) = {[involved_patterns |-> closure, pattern_to_add |-> i] :
                                   i \in children}
             /\ \A i \in DOMAIN pushed :
                   /\ pushed[i].pattern_to_add \notin pushed[i].involved_patterns
                   /\ ~Le(apes[pushed[i].pattern_to_add].ptrn, new_pattern)]_vars

\* C26 witness: a pushed frame whose involved set holds an atom after its
\* pattern_to_add, added by the closure because it is below the yielded pattern
C26_Witness ==
    /\ pc = "loop"
    /\ \E i \in DOMAIN stack :
          \E j \in stack[i].involved_patterns : j > stack[i].pattern_to_add

\* C29: iter_all_patterns never yields the same pattern twice in one run, the
\* seed pattern included.
C29_NoPatternYieldedTwice ==
    pc \in {"seed", "loop", "done"} =>
        NoDuplicates([i \in DOMAIN yielded |-> yielded[i].ptrn])

(***************************************************************************)
(* list_intents_via_Lindig_complex.  An extent is the list of its object   *)
(* indices in increasing order, written here as the set of the indices.    *)
(* The pattern structure handed to the function is an AbstractPS: its      *)
(* intent, extent and binarize are modelled over the pattern domain above, *)
(* with a max_pattern placeholder strictly above every description.        *)
(***************************************************************************)
MaxLindigObj == 3  \* objects given to list_intents_via_Lindig_complex
MaxLindigFairObj == 2  \* the same where termination is checked

\* the max_pattern of the pattern structure: more precise than every description
MAX_PATTERN_PLACEHOLDER == Items \cup {Cardinality(Items) + 1}

\* ps.intent(descriptions): the common description, max_pattern for no description
PsIntent(descriptions) == ReduceMeet(descriptions, MAX_PATTERN_PLACEHOLDER)

\* ps.extent(pattern, data): the indices of the descriptions at least as precise
PsExtent(pattern, data) == {i \in DOMAIN data : Le(pattern, data[i])}

\* ps.binarize(data)[1]: per object the row of its binary attributes; there is
\* one attribute per item, from the most general one, and a last one (the
\* max_pattern) that no object has
Binarize(data) ==
    [i \in DOMAIN data |->
       [a \in 1..(Cardinality(Items) + 1) |-> IF a \in data[i] THEN 1 ELSE 0]]

\* [data[i] for i in extent], the indices taken in increasing order
ValuesOf(data, ext) ==
    [k \in 1..Cardinality(ext) |->
       data[CHOOSE g \in ext : Cardinality({h \in ext : h < g}) = k - 1]]

\* compute_bits_intersection: all ones for no row, else the AND of the rows
compute_bits_intersection(bits, len_bitarray) ==
    [a \in 1..len_bitarray |-> IF \A k \in DOMAIN bits : bits[k][a] = 1 THEN 1 ELSE 0]

\* faulty variant: "different" in the place of "smaller"
BitsLess_NotEqual(a, b) == a # b

\* a < b on two bitarrays of one length: they are compared as lists of bits
BitsLess(a, b) ==
    \E i \in DOMAIN a : a[i] < b[i] /\ \A j \in 1..(i - 1) : a[j] = b[j]

\* faulty variant: an object that fails the test stays in min_set
MinSetRemove_Keep(min_set, g) == min_set

\* min_set.remove(g)
MinSetRemove(min_set, g) == min_set \ {g}

\* the loop of find_upper_neighbors over the objects outside the concept
RECURSIVE UpperNeighborsLoop(_, _, _, _, _)
UpperNeighborsLoop(data, extent_of_concept, gs, min_set, neighbors) ==
    IF gs = <<>>
    THEN neighbors
    ELSE LET g == Head(gs)
             B1 == PsIntent(ValuesOf(data, extent_of_concept) \o <<data[g]>>)
             A1 == PsExtent(B1, data)
         IN  IF min_set \cap ((A1 \ extent_of_concept) \ {g}) = {}
             THEN UpperNeighborsLoop(data, extent_of_concept, Tail(gs), min_set,
                                     Append(neighbors, A1))
             ELSE UpperNeighborsLoop(data, extent_of_concept, Tail(gs),
                                     MinSetRemove(min_set, g), neighbors)

\* the increasing list of the elements of a set of indices
SortedList(S) ==
    [k \in 1..Cardinality(S) |-> CHOOSE g \in S : Cardinality({h \in S : h < g}) = k - 1]

find_upper_neighbors(data, extent_of_concept, objects_indices) ==
    LET min_set == objects_indices \ extent_of_concept
    IN  UpperNeighborsLoop(data, extent_of_concept, SortedList(min_set), min_set, <<>>)

\* the bits of an extent in find_next_concept_extent
ExtentBit(data, ext) ==
    compute_bits_intersection(ValuesOf(Binarize(data), ext), Len(Binarize(data)[1]))

\* the loop of find_next_concept_extent over List_extents; next is the Optional
\* next_concept_extent
RECURSIVE NextConceptLoop(_, _, _, _)
NextConceptLoop(data, concept_extent_bit, List_extents, next) ==
    IF List_extents = <<>>
    THEN next
    ELSE LET ext == Head(List_extents)
             extent_bit == ExtentBit(data, ext)
         IN  IF /\ BitsLess(extent_bit, concept_extent_bit)
                /\ (IsNone(next) \/ BitsLess(ExtentBit(data, Get(next)), extent_bit))
             THEN NextConceptLoop(data, concept_extent_bit, Tail(List_extents), Some(ext))
             ELSE NextConceptLoop(data, concept_extent_bit, Tail(List_extents), next)

\* find_next_concept_extent: the extent found, or NotFound raised
find_next_concept_extent(data, extent_of_concept, List_extents) ==
    LET next == NextConceptLoop(data, ExtentBit(data, extent_of_concept), List_extents, NoneVal)
    IN  IF IsNone(next) THEN Raise("NotFound") ELSE Ok(Get(next))

\* for parent in ...: if parent not in Lattice_data_extents: append
RECURSIVE AppendNewParents(_, _)
AppendNewParents(lattice, parents) ==
    IF parents = <<>>
    THEN lattice
    ELSE AppendNewParents(IF Head(parents) \in Range(lattice)
                          THEN lattice ELSE Append(lattice, Head(parents)),
                          Tail(parents))

\* list_intents_via_Lindig_complex(data, pattern_structure): up to the while loop
LindigInitUpTo(max_objects) ==
    /\ \E n \in 1..max_objects : patterns \in [1..n -> Patterns]
    /\ Lattice_data_extents = <<{}>>
    /\ concept_extent = {}
    /\ yielded = <<>>
    /\ pc = "lindig"
    /\ stack = <<>>
    /\ atomic_patterns_extents = <<>> /\ min_support = IntValue(0) /\ depth_first = TRUE
    /\ controlled_iteration = FALSE /\ stop_pattern = NoneVal
    /\ object_names = NoneVal /\ object_irreducibles = NoneVal
    /\ atomic_patterns = NoneVal /\ atomic_patterns_order = NoneVal
    /\ result = [op |-> "init"]

LindigInit == LindigInitUpTo(MaxLindigObj)

\* one pass of the while loop: the parents are added, then the next concept is
\* taken, or NotFound breaks the loop
LindigStep ==
    /\ pc = "lindig"
    /\ \E lattice \in {AppendNewParents(Lattice_data_extents,
                          find_upper_neighbors(patterns, concept_extent,
                                               PsExtent({}, patterns)))} :
         \E next \in {find_next_concept_extent(patterns, concept_extent, lattice)} :
            /\ Lattice_data_extents' = lattice
            /\ IF next.kind = "ok"
               THEN concept_extent' = next.value /\ pc' = "lindig"
               ELSE concept_extent' = concept_extent /\ pc' = "intents"
    /\ UNCHANGED <<patterns, atomic_patterns_extents, min_support, depth_first,
                   controlled_iteration, stop_pattern, stack, yielded>>
    /\ UNCHANGED psVars

\* after the loop: the intents of the extents are computed and returned
LindigReturn ==
    /\ pc = "intents"
    /\ yielded' = [k \in DOMAIN Lattice_data_extents |->
                     PsIntent(ValuesOf(patterns, Lattice_data_extents[k]))]
    /\ pc' = "done"
    /\ UNCHANGED <<patterns, atomic_patterns_extents, min_support, depth_first,
                   controlled_iteration, stop_pattern, stack>>
    /\ UNCHANGED lindigVars
    /\ UNCHANGED psVars

NextLindig == LindigStep \/ LindigReturn

SpecLindig == LindigInit /\ [][NextLindig]_vars

\* the intents of the concept lattice of the data, from its definition: the
\* common descriptions of the sets of objects
ConceptIntents(data) == {PsIntent(ValuesOf(data, S)) : S \in SUBSET (DOMAIN data)}

SpecLindigFair ==
    LindigInitUpTo(MaxLindigFairObj) /\ [][NextLindig]_vars /\ WF_vars(NextLindig)

PatternAnd_NoShortcut(a, b, min_pattern) == Meet(a, b)

\* Pattern.__and__
PatternAnd(a, b, min_pattern) ==
    IF ~IsNone(min_pattern) /\ (Get(min_pattern) = a \/ Get(min_pattern) = b)
    THEN Get(min_pattern)
    ELSE Meet(a, b)

\* Pattern.__or__
PatternOr(a, b, max_pattern) ==
    IF ~IsNone(max_pattern) /\ (Get(max_pattern) = a \/ Get(max_pattern) = b)
    THEN Get(max_pattern)
    ELSE Join(a, b)

\* Pattern.__sub__
PatternSub(a, b, min_pattern) ==
    IF ~IsNone(min_pattern) /\ a = b THEN Get(min_pattern) ELSE a

\* two patterns a and b of one class are at hand; the class declares as its
\* min_pattern (max_pattern) nothing, the extreme value of the sets, or a
\* placeholder value of its own
PatternOpsInit ==
    /\ \E min_pattern \in {NoneVal, Some({}), Some({0})} :
         \E max_pattern \in {NoneVal, Some(Items), Some({Cardinality(Items) + 1})} :
            \E a, b \in Patterns \cup {Get(m) : m \in {min_pattern, max_pattern} \ {NoneVal}} :
               result = [op |-> "patterns",
                         arg |-> [a |-> a, b |-> b,
                                  min_pattern |-> min_pattern, max_pattern |-> max_pattern]]
    /\ object_names = NoneVal /\ object_irreducibles = NoneVal
    /\ atomic_patterns = NoneVal /\ atomic_patterns_order = NoneVal
    /\ GenIdle

PatternCall(op, out) ==
    /\ result.op = "patterns"
    /\ result' = [op |-> op, arg |-> result.arg, out |-> out]
    /\ UNCHANGED <<object_names, object_irreducibles, atomic_patterns, atomic_patterns_order>>
    /\ UNCHANGED genVars
    /\ UNCHANGED lindigVars

\* a & b, a.meet(b), a.intersection(b)
CallMeet == PatternCall("meet", PatternAnd(result.arg.a, result.arg.b, result.arg.min_pattern))

\* a | b, a.join(b), a.union(b)
CallJoin == PatternCall("join", PatternOr(result.arg.a, result.arg.b, result.arg.max_pattern))

\* a - b, a.difference(b)
CallDifference ==
    PatternCall("difference", PatternSub(result.arg.a, result.arg.b, result.arg.min_pattern))

NextPatternOps == CallMeet \/ CallJoin \/ CallDifference

SpecPatternOps == PatternOpsInit /\ [][NextPatternOps]_vars

C24_DifferenceIsSetDifference ==
    result.op = "difference" => result.out = result.arg.a \ result.arg.b

(***************************************************************************)
(* Termination of the two Close-By-One generators.                         *)
(***************************************************************************)
\* either generator is created
GeneratorsInit ==
    \/ OcboInitUpTo(MaxFairObj)
    \/ AllInit(FALSE, MaxFairObj, MaxFairAtoms, {IntValue(k) : k \in 0..1})

\* the consumer keeps asking for the next value, and the body of a generator is
\* sequential code: the step that is possible is taken
SpecGeneratorsFair ==
    /\ GeneratorsInit
    /\ [][NextOcbo \/ NextAll]_vars
    /\ WF_vars(NextOcbo) /\ WF_vars(NextAll)

====
